---- MODULE Spec2Model ----
(***************************************************************************)
(* State-machine model of the chat components of Propertius.               *)
(*                                                                         *)
(* PropertyManagerChat (src/src/components/PropertyManagerChat.tsx) is a   *)
(* React function component.  Its state is the set of useState cells; an   *)
(* event handler is an async function whose body runs atomically between   *)
(* two awaits (JavaScript is single threaded) and which reads the state    *)
(* values of the render in which it was created (a closure), while its     *)
(* setState calls act on the latest state.  Every action below is one such *)
(* atomic segment: from an event, or from the settlement of an awaited     *)
(* call, to the next await or to the end of the handler.                   *)
(*                                                                         *)
(* A text is a sequence of tokens; the token " " is a whitespace           *)
(* character, every other token is a run of non-whitespace characters.     *)
(***************************************************************************)
EXTENDS Integers, Sequences, FiniteSets, TLC

\* ------------------------------------------------------------------ bounds
\* number of user events explored in one run: handleSendMessage invocations
\* (accepted or rejected), handleResetChat invocations and workspace switches
MaxEvents == 2
\* number of quick-action buttons explored (they differ in their label only)
QuickActionsExplored == 1
\* longest list of citation sources passed to processTextWithCitations
MaxSources == 3

\* ------------------------------------------------------------- basic values
Workspaces == {"purchaser", "invoicer"}

\* String.prototype.trim: strips leading and trailing whitespace
RECURSIVE TrimLeft(_)
TrimLeft(s) ==
    IF s = <<>> THEN <<>>
    ELSE IF Head(s) = " " THEN TrimLeft(Tail(s)) ELSE s

RECURSIVE TrimRight(_)
TrimRight(s) ==
    IF s = <<>> THEN <<>>
    ELSE IF s[Len(s)] = " " THEN TrimRight(SubSeq(s, 1, Len(s) - 1)) ELSE s

Trim(s) == TrimRight(TrimLeft(s))

\* the texts a user can type into the input field
TypedTexts == {<<>>, <<" ">>, <<" ", "a">>}

\* the labels of the quick-action buttons
quickActions ==
    << <<"Use prenegotiated discount prices">>,
       <<"Get approvals easily and from correct person">>,
       <<"Find preferred contractor and best price/quality">>,
       <<"Create maintenance orders easily and correctly">> >>

\* ------------------------------------------------------------ message parts
\* a Part is either a text fragment or a function-call fragment
TextPart(txt) == [kind |-> "text", text |-> txt, name |-> ""]

FunctionCallPart(fname) == [kind |-> "functionCall", text |-> <<>>, name |-> fname]

searchERPFunctionName == "search_purchase_orders"

GenericErrorText == <<"Error processing your request.", " ", "Please try again.">>

NoResponseText == <<"No response text">>

CouldNotGenerateText == <<"I couldn't generate a response.">>

CouldNotFormatText == <<"I executed the search but couldn't format the response.">>

UserMessage(txt) == [role |-> "user", parts |-> <<TextPart(txt)>>]

ModelMessage(ps) == [role |-> "model", parts |-> ps]

ErrorMessage == ModelMessage(<<TextPart(GenericErrorText)>>)

\* the welcome turn built by initializeSession; its wording depends on the
\* workspace and on whether any knowledge document was loaded
WelcomeMessage(ws, docs) ==
    ModelMessage(<<TextPart(
        IF docs = 0
        THEN <<"Welcome to Propertius!", " ", ws>>
        ELSE <<"Hello! I'm your Propertius", " ", ws, " ", "assistant">>)>>)

\* the toasts of initializeSession and handleResetChat
WelcomeToast(docs) ==
    IF docs = 0
    THEN <<"Tervetuloa!", " ", "Admin-paneelissa">>
    ELSE <<"Istunto alustettu", " ", "tietodokumentilla">>

NoSystemPromptToast(ws) ==
    <<"No", " ", ws, " ", "system prompt found.", " ", "Please create one in the",
      " ", "Admin panel">>

DatabaseLoadingFailedToast ==
    <<"Database loading failed.", " ", "Check system prompt settings in", " ",
      "Admin panel">>

ThanksToast(feedback) ==
    IF feedback = "thumbs_up"
    THEN <<"Thanks for the positive feedback!">>
    ELSE <<"Thanks for the feedback", " ", "-", " ", "we'll improve!">>

FailedToSaveFeedbackToast == <<"Failed to save feedback">>

ChatResetToast == <<"Chat reset successfully">>

SessionRefreshedToast == <<"Session refreshed with latest knowledge base">>

\* error.message.includes('No system prompt configured')
InitFailureToast(ws, error) ==
    IF error = "No system prompt configured"
    THEN NoSystemPromptToast(ws)
    ELSE DatabaseLoadingFailedToast

\* the ChatSession returned by sessionService.initializeChatSession
ChatSessionOf(ws, docs) ==
    [workspace |-> ws, fullContext |-> <<"context", " ", ws>>, documentsUsed |-> docs]

\* chatSession === null
NoSession == [workspace |-> "", fullContext |-> <<>>, documentsUsed |-> 0]

\* ------------------------------------------------- outcomes of awaited calls
\* an awaited promise either fulfils with a value or rejects
Rejected == [settled |-> "rejected", candidates |-> <<>>]

Resolved(cands) == [settled |-> "resolved", candidates |-> cands]

\* candidate.content: undefined, or an object whose parts may be undefined
NoContent == [defined |-> FALSE, hasParts |-> FALSE, parts |-> <<>>]

ContentNoParts == [defined |-> TRUE, hasParts |-> FALSE, parts |-> <<>>]

Content(ps) == [defined |-> TRUE, hasParts |-> TRUE, parts |-> ps]

Candidate(c) == [content |-> c]

AnswerText == <<"answer">>

FollowUpText == <<"found", " ", "records">>

\* results of the first model.generateContent call of a turn
FirstModelResponses ==
    { Rejected,
      Resolved(<<>>),
      Resolved(<<Candidate(NoContent)>>),
      Resolved(<<Candidate(Content(<<TextPart(AnswerText)>>))>>),
      Resolved(<<Candidate(Content(<<TextPart(<<>>)>>))>>),
      Resolved(<<Candidate(Content(<<FunctionCallPart(searchERPFunctionName)>>))>>),
      Resolved(<<Candidate(Content(<<FunctionCallPart("other_function")>>))>>),
      Resolved(<<Candidate(Content(<<TextPart(AnswerText),
                                     FunctionCallPart(searchERPFunctionName)>>))>>) }

\* results of the follow-up model.generateContent call
FollowUpModelResponses ==
    { Rejected,
      Resolved(<<>>),
      Resolved(<<Candidate(NoContent)>>),
      Resolved(<<Candidate(ContentNoParts)>>),
      Resolved(<<Candidate(Content(<<TextPart(FollowUpText)>>))>>),
      Resolved(<<Candidate(Content(<<TextPart(<<>>)>>))>>),
      Resolved(<<Candidate(Content(<<FunctionCallPart(searchERPFunctionName)>>))>>) }

\* results of erpApiService.searchRecords: it throws, or returns
\* {records, totalCount, processingTimeMs}
SearchOutcomes ==
    { [settled |-> "rejected", records |-> <<>>, totalCount |-> 0, processingTimeMs |-> 0],
      [settled |-> "resolved", records |-> <<>>, totalCount |-> 0, processingTimeMs |-> 1],
      [settled |-> "resolved", records |-> <<"r1", "r2", "r3">>, totalCount |-> 3,
       processingTimeMs |-> 1] }

\* results of loadLatestPrompt: it throws, returns null, or returns a prompt
LoadPromptOutcomes ==
    { [settled |-> "rejected", prompt |-> <<>>],
      [settled |-> "resolved", prompt |-> <<>>],
      [settled |-> "resolved", prompt |-> <<"saved prompt">>] }

\* results of sessionService.initializeChatSession: it throws the
\* configuration error, throws another error, or returns a session with a
\* number of knowledge documents
InitOutcomes ==
    { [settled |-> "rejected", error |-> "No system prompt configured", docs |-> 0],
      [settled |-> "rejected", error |-> "network", docs |-> 0],
      [settled |-> "resolved", error |-> "", docs |-> 0],
      [settled |-> "resolved", error |-> "", docs |-> 2] }

\* an awaited addTechnicalLog / createContinuousImprovementSession call
Settlements == {"resolved", "rejected"}

\* ------------------------------------------------ processTextWithCitations
\* CitationSource {uri?: string, title?: string}: a uri is a text of at most
\* one token and a title a text; <<>> is the empty string or undefined, which
\* the function does not tell apart
Uris == {<<>>, <<"a">>, <<"b">>}

Titles == {<<>>, <<" ">>, <<"X">>, <<"Y">>}

CitationSources == [uri : Uris, title : Titles]

SourceLists == UNION {[1..n -> CitationSources] : n \in 0..MaxSources}

\* `[Source ${sourceNumber}: ${linkDescription}](${source.uri})`
FormattedSource(sourceNumber, linkDescription, uri) ==
    [sourceNumber |-> sourceNumber, linkDescription |-> linkDescription, uri |-> uri]

\* the state of the forEach loop before its first iteration
NoSources == [formattedSources |-> <<>>, uniqueUris |-> {}, sourceNumber |-> 1]

\* a loop body that does not consult uniqueUris
ForEachSourceKeepingDuplicates(acc, source) ==
    IF source.uri # <<>>
    THEN [formattedSources |->
             Append(acc.formattedSources,
                    FormattedSource(acc.sourceNumber,
                                    IF source.title # <<>> /\ Trim(source.title) # <<>>
                                    THEN source.title ELSE source.uri,
                                    source.uri)),
          uniqueUris |-> acc.uniqueUris \cup {source.uri},
          sourceNumber |-> acc.sourceNumber + 1]
    ELSE acc

\* one iteration of citationSources.forEach
ForEachSource(acc, source) ==
    IF source.uri # <<>> /\ source.uri \notin acc.uniqueUris
    THEN LET linkDescription ==
                 IF source.title # <<>> /\ Trim(source.title) # <<>>
                 THEN source.title ELSE source.uri
         IN  [formattedSources |->
                 Append(acc.formattedSources,
                        FormattedSource(acc.sourceNumber, linkDescription, source.uri)),
              uniqueUris |-> acc.uniqueUris \cup {source.uri},
              sourceNumber |-> acc.sourceNumber + 1]
    ELSE acc

RECURSIVE ForEach(_, _)
ForEach(acc, sources) ==
    IF sources = <<>> THEN acc
    ELSE ForEach(ForEachSource(acc, Head(sources)), Tail(sources))

processTextWithCitations(text, citationSources) ==
    [originalText |-> text,
     formattedSources |-> IF Len(citationSources) > 0
                          THEN ForEach(NoSources, citationSources).formattedSources
                          ELSE <<>>]

\* a call of processTextWithCitations that has not been made yet
NotRendered(text, sources) ==
    [text |-> text, citationSources |-> sources, rendered |-> FALSE,
     originalText |-> <<>>, formattedSources |-> <<>>]

\* --------------------------------------------------------------- the state
VARIABLES
    messages,                        \* useState<Message[]>
    input,                           \* useState('')
    isLoading,                       \* useState(false): the in-flight guard
    sessionActive,                   \* useState(false)
    chatSession,                     \* useState<ChatSession | null>
    sessionInitializing,             \* useState(false)
    continuousImprovementSessionId,  \* useState<string | null>; 0 is null
    currentWorkspace,                \* useWorkspace().currentWorkspace
    turns,                           \* one record per handleSendMessage invocation
    pendingInits,                    \* outstanding initializeChatSession calls
    sessionsCreated,                 \* telemetry sessions created so far
    resets,                          \* handleResetChat invocations so far
    workspaceChanges,                \* workspace switches so far
    feedbackDialogOpen,              \* useState(false)
    pendingFeedback,                 \* useState<'thumbs_up' | 'thumbs_down' | null>
    pendingMessageIndex,             \* useState<number | null>; 0 is null
    feedbackCalls,                   \* one record per handleFeedback or
                                     \* submitFeedback invocation
    feedbackComment,                 \* useState('')
    citations,                       \* a call of processTextWithCitations
    toast,                           \* the toast shown last; <<>> is none
    management                       \* the state of a PropertyManagementChat

vars == <<messages, input, isLoading, sessionActive, chatSession, sessionInitializing,
          continuousImprovementSessionId, currentWorkspace, turns, pendingInits,
          sessionsCreated, resets, workspaceChanges, feedbackDialogOpen,
          pendingFeedback, pendingMessageIndex, feedbackCalls, feedbackComment,
          citations, toast, management>>

\* the user events so far
UserEvents == Len(turns) + resets + workspaceChanges + Len(feedbackCalls)

\* feedback: 'thumbs_up' | 'thumbs_down'; "null" is null
Polarities == {"thumbs_up", "thumbs_down"}

\* the guard without the trim: whitespace-only text passes
GuardRejectsUntrimmed(textToSend) == textToSend = <<>> \/ isLoading

\* if (!textToSend.trim() || isLoading) return;
GuardRejects(textToSend) == Trim(textToSend) = <<>> \/ isLoading

\* the argument of handleSendMessage(messageText?: string)
NoArgument == [given |-> FALSE, text |-> <<>>]

Argument(txt) == [given |-> TRUE, text |-> txt]

\* JavaScript truthiness of messageText: undefined and '' are falsy
Truthy(arg) == arg.given /\ arg.text # <<>>

NoSearchResult == [settled |-> "none", records |-> <<>>, totalCount |-> 0, processingTimeMs |-> 0]

NotCalled == [settled |-> "none", candidates |-> <<>>]

\* the payload of the functionResponse part: {instruction, records,
\* totalCount, processingTimeMs}; NoFunctionResponse when the request has none
NoFunctionResponse ==
    [instruction |-> <<>>, records |-> <<>>, totalCount |-> 0, processingTimeMs |-> 0]

InstructionText == <<"IMPORTANT: Present this data to the user in a clear, formatted way.">>

\* a function response that carries the number of records only
FunctionResponseWithoutRecords(searchResult) ==
    [instruction |-> InstructionText, records |-> <<>>,
     totalCount |-> Len(searchResult.records),
     processingTimeMs |-> searchResult.processingTimeMs]

FunctionResponseOf(searchResult) ==
    [instruction |-> InstructionText, records |-> searchResult.records,
     totalCount |-> searchResult.totalCount,
     processingTimeMs |-> searchResult.processingTimeMs]

FunctionResponsePart(fname) == [kind |-> "functionResponse", text |-> <<>>, name |-> fname]

\* genAI.getGenerativeModel({model, generationConfig, tools:
\* [{functionDeclarations: [searchERPFunction]}]}): the one model object of a
\* handleSendMessage invocation; every generateContent call made on it
\* carries its tools
GenerativeModelTools == {searchERPFunctionName}

\* no generateContent call is outstanding
NoRequest == [tools |-> {}, contents |-> <<>>, functionResponse |-> NoFunctionResponse]

\* {role: 'user', parts: [{text: systemPrompt}]}, ...history,
\* {role: 'user', parts: [{text: textToSend}]}
FirstContents(systemPrompt, history, textToSend) ==
    <<UserMessage(systemPrompt)>> \o history \o <<UserMessage(textToSend)>>

\* One handleSendMessage invocation.  messageText .. finalParts are its
\* locals; ciSid, session and history are the values of
\* continuousImprovementSessionId, chatSession and messages in the render
\* whose closure the invocation runs in.  The remaining fields record what
\* the invocation has done: the state it was entered in (isLoading, whether
\* the text was blank, the number of resets and workspace switches before
\* it), the results its model and search calls returned, the calls it made,
\* the model turns it appended and the number of times it released the guard.
EmptyTurn ==
    [ id           |-> 0,
      pc           |-> "noop",
      messageText  |-> [given |-> FALSE, text |-> <<>>],
      textToSend   |-> <<>>,
      ciSid        |-> 0,
      session      |-> NoSession,
      history      |-> <<>>,
      systemPrompt |-> <<>>,
      part         |-> TextPart(<<>>),
      aiRequestId  |-> 0,
      searchResult |-> NoSearchResult,
      aiResponseText |-> <<>>,
      finalParts   |-> <<>>,
      request      |-> NoRequest,
      loadingSeen  |-> FALSE,
      blankSeen    |-> FALSE,
      generation   |-> 0,
      response     |-> NotCalled,
      searchSettled |-> "none",
      followUpResponse |-> NotCalled,
      userAppended |-> FALSE,
      modelCalls   |-> 0,
      searchCalls  |-> 0,
      logCalls     |-> <<>>,
      appended     |-> <<>>,
      releases     |-> 0 ]

\* an invocation that passed the guard of handleSendMessage
NewTurn(arg, txt) ==
    [EmptyTurn EXCEPT
       !.id = Len(turns) + 1,
       !.pc = "start",
       !.loadingSeen = isLoading,
       !.blankSeen = (Trim(txt) = <<>>),
       !.generation = resets + workspaceChanges,
       !.messageText = arg,
       !.textToSend = txt,
       !.ciSid = continuousImprovementSessionId,
       !.session = chatSession,
       !.history = messages]

\* an invocation that returned at the guard
RejectedCall(txt) ==
    [EmptyTurn EXCEPT
       !.id = Len(turns) + 1,
       !.loadingSeen = isLoading,
       !.blankSeen = (Trim(txt) = <<>>),
       !.generation = resets + workspaceChanges]

\* the locals of an invocation that has returned or thrown are gone
Locals == {"messageText", "textToSend", "ciSid", "session", "history", "systemPrompt",
           "part", "aiRequestId", "searchResult", "aiResponseText", "finalParts",
           "request"}

Return(rec, at) ==
    [f \in DOMAIN rec |-> IF f \in Locals THEN EmptyTurn[f]
                          ELSE IF f = "pc" THEN at ELSE rec[f]]

\* The record of what an invocation did is kept from its return until the
\* next invocation is made.
Returned(rec) == rec.pc \in {"noop", "done", "threw", "forgotten"}

Forget(recs) ==
    [t \in DOMAIN recs |->
        IF Returned(recs[t]) THEN [EmptyTurn EXCEPT !.id = t, !.pc = "forgotten"]
        ELSE recs[t]]

\* String.prototype.substring(from, to)
Substring(str, from, to) ==
    SubSeq(str, from + 1, IF to < Len(str) THEN to ELSE Len(str))

\* ------------------------------------------- segments of handleSendMessage
\* A segment maps the locals of an invocation to: the locals at the next
\* await or at the end (turn), the model turns it appends to messages (out),
\* and whether the finally block ran (fin).

\* the handler suspends at an await
Await(rec, at) == [turn |-> [rec EXCEPT !.pc = at], out |-> <<>>, fin |-> FALSE]

\* setMessages(prev => [...prev, m]) for each m of out, then the finally
\* block: setIsLoading(false)
Finish(rec, out) ==
    [turn |-> Return([rec EXCEPT !.appended = @ \o out, !.releases = @ + 1], "done"),
     out  |-> out,
     fin  |-> TRUE]

\* a payload passed to addTechnicalLog(continuousImprovementSessionId, ...)
LogEntry(rec, ev, txt) ==
    [event |-> ev, sid |-> rec.ciSid, aiRequestId |-> rec.aiRequestId, aiResponse |-> txt]

\* if (continuousImprovementSessionId) await addTechnicalLog(...): the
\* handler suspends at `at`; without a session id it goes on with `otherwise`
LogOrElse(rec, ev, txt, at, otherwise) ==
    IF rec.ciSid # 0
    THEN Await([rec EXCEPT !.logCalls = Append(@, LogEntry(rec, ev, txt))], at)
    ELSE otherwise

\* an outer catch that only logs to the console
OuterCatchSilent(rec) == Finish(rec, <<>>)

\* catch (error) of the outer try: the generic error turn, then finally
OuterCatch(rec) == Finish(rec, <<ErrorMessage>>)

\* an inner catch that retries the search
FunctionCatchRetrying(rec) ==
    Await([rec EXCEPT !.searchCalls = @ + 1], "search")

\* catch (functionError) of the inner try.  Its first statement reads
\* aiRequestId, a const declared inside the try block and so not in scope in
\* the catch block: the read throws a ReferenceError, which leaves the catch
\* block before it logs function_call_error or appends its own error turn,
\* and is caught by the outer catch.
FunctionCatch(rec) == OuterCatch(rec)

\* a first call whose history is read after the user turn was appended
GenerateContentWithAppendedHistory(rec) ==
    Await([rec EXCEPT
             !.modelCalls = @ + 1,
             !.request = [tools |-> GenerativeModelTools,
                          contents |-> FirstContents(rec.systemPrompt,
                                                     Append(rec.history,
                                                            UserMessage(rec.textToSend)),
                                                     rec.textToSend),
                          functionResponse |-> NoFunctionResponse]],
          "model")

\* model.generateContent({contents: [system, ...history, user]})
GenerateContent(rec) ==
    Await([rec EXCEPT
             !.modelCalls = @ + 1,
             !.request = [tools |-> GenerativeModelTools,
                          contents |-> FirstContents(rec.systemPrompt, rec.history,
                                                     rec.textToSend),
                          functionResponse |-> NoFunctionResponse]],
          "model")

\* the start of the try block: pick the system prompt
EnterTry(rec) ==
    IF rec.session # NoSession
    THEN GenerateContent([rec EXCEPT !.systemPrompt = rec.session.fullContext])
    ELSE Await(rec, "load_prompt")

\* the user turn has been appended and isLoading set
AfterUserTurn(rec) ==
    LogOrElse(rec, "user_message", <<>>, "log_user_message", EnterTry(rec))

\* loadLatestPrompt settled
AfterLoadPrompt(rec, o) ==
    LET systemPrompt == IF o.settled = "resolved" THEN o.prompt ELSE <<>>
    IN  IF systemPrompt = <<>>
        THEN OuterCatch(rec)
        ELSE GenerateContent([rec EXCEPT !.systemPrompt = systemPrompt])

\* content?.parts?.[0]?.text || "No response text"
ResponseText(content) ==
    IF content.defined /\ content.hasParts /\ Len(content.parts) > 0
       /\ content.parts[1].kind = "text" /\ content.parts[1].text # <<>>
    THEN content.parts[1].text
    ELSE NoResponseText

\* content?.parts || [{text: fallback}]
PartsOr(content, fallback) ==
    IF content.defined /\ content.hasParts THEN content.parts ELSE <<TextPart(fallback)>>

\* the positions of the parts that carry a search_purchase_orders call
SearchCallPositions(content) ==
    IF content.defined /\ content.hasParts
    THEN {i \in 1..Len(content.parts) :
            content.parts[i].kind = "functionCall"
            /\ content.parts[i].name = searchERPFunctionName}
    ELSE {}

SetMin(S) == CHOOSE x \in S : \A y \in S : x <= y

\* erpApiService.searchRecords(user.uid, functionArgs)
SearchRecords(rec) == Await([rec EXCEPT !.searchCalls = @ + 1], "search")

\* the follow-up model.generateContent, on the same model object, with the
\* original function-call part and the function response
FollowUp(rec) ==
    Await([rec EXCEPT
             !.modelCalls = @ + 1,
             !.request = [tools |-> GenerativeModelTools,
                          contents |-> FirstContents(rec.systemPrompt, rec.history,
                                                     rec.textToSend)
                                       \o <<ModelMessage(<<rec.part>>),
                                            ModelMessage(<<FunctionResponsePart(rec.part.name)>>)>>,
                          functionResponse |-> FunctionResponseOf(rec.searchResult)]],
          "follow_up")

\* the first model call settled
AfterFirstResponse(rec, r) ==
    IF r.settled = "rejected" \/ Len(r.candidates) = 0
    THEN OuterCatch([rec EXCEPT !.response = r, !.request = NoRequest])
    ELSE
      LET content == r.candidates[1].content
          calls   == SearchCallPositions(content)
          rec1    == [rec EXCEPT !.response = r, !.request = NoRequest]
      IN  IF calls # {}
          THEN LET rec2 == [rec1 EXCEPT !.part = content.parts[SetMin(calls)],
                                        !.aiRequestId = rec.id]
               IN  LogOrElse(rec2, "function_call_triggered", <<>>,
                             "log_triggered", SearchRecords(rec2))
          ELSE LET rec2 == [rec1 EXCEPT
                              !.aiResponseText = ResponseText(content),
                              !.finalParts = PartsOr(content, CouldNotGenerateText)]
               IN  LogOrElse(rec2, "ai_response",
                             Substring(rec2.aiResponseText, 0, 500),
                             "log_response",
                             Finish(rec2, <<ModelMessage(rec2.finalParts)>>))

\* a handler that goes on to the follow-up call whatever the search did
AfterSearchIgnoringFailure(rec, o) ==
    FollowUp([rec EXCEPT !.searchResult = o, !.searchSettled = o.settled])

\* erpApiService.searchRecords settled
AfterSearch(rec, o) ==
    IF o.settled = "rejected"
    THEN FunctionCatch([rec EXCEPT !.searchSettled = "rejected"])
    ELSE LET rec1 == [rec EXCEPT !.searchResult = o, !.searchSettled = "resolved"]
         IN  LogOrElse(rec1, "function_call_success", <<>>, "log_success", FollowUp(rec1))

\* the follow-up model call settled
AfterFollowUp(rec, r) ==
    IF r.settled = "rejected"
    THEN FunctionCatch([rec EXCEPT !.followUpResponse = r])
    ELSE IF Len(r.candidates) > 0 /\ r.candidates[1].content.defined
    THEN LET content == r.candidates[1].content
             rec1 == [rec EXCEPT
                        !.followUpResponse = r,
                        !.request = NoRequest,
                        !.aiResponseText = ResponseText(content),
                        !.finalParts = PartsOr(content, CouldNotFormatText)]
         IN  LogOrElse(rec1, "ai_response", Substring(rec1.aiResponseText, 0, 500),
                       "log_follow_up_response",
                       Finish(rec1, <<ModelMessage(rec1.finalParts)>>))
    ELSE Finish([rec EXCEPT !.followUpResponse = r], <<>>)

\* the awaits of addTechnicalLog
TelemetryAwaits == {"log_user_message", "log_triggered", "log_success",
                    "log_follow_up_response", "log_response"}

\* an awaited addTechnicalLog resolved: the handler goes on after the await
AfterLogResolved(rec) ==
    CASE rec.pc = "log_user_message" -> EnterTry(rec)
      [] rec.pc = "log_triggered" -> SearchRecords(rec)
      [] rec.pc = "log_success" -> FollowUp(rec)
      [] rec.pc = "log_follow_up_response" ->
            Finish(rec, <<ModelMessage(rec.finalParts)>>)
      [] rec.pc = "log_response" ->
            Finish(rec, <<ModelMessage(rec.finalParts)>>)

\* an awaited addTechnicalLog rejected: the await throws.  The user_message
\* write is made before the try block, so the rejection leaves
\* handleSendMessage as a rejected promise, past the catch and the finally;
\* the writes of the tool round-trip are inside the inner try, the write of
\* the plain response inside the outer try only.
AfterLogRejected(rec) ==
    CASE rec.pc = "log_user_message" ->
            [turn |-> Return(rec, "threw"), out |-> <<>>, fin |-> FALSE]
      [] rec.pc \in {"log_triggered", "log_success", "log_follow_up_response"} ->
            FunctionCatch(rec)
      [] rec.pc = "log_response" -> OuterCatch(rec)

AfterLog(rec, outcome) ==
    IF outcome = "resolved" THEN AfterLogResolved(rec) ELSE AfterLogRejected(rec)

\* -------------------------------------------------- PropertyManagementChat
\* the keys and texts of `prompts` in handleStructuredExtraction
ExtractionTypes == {"contractors", "pricing", "contracts"}

prompts ==
    [type \in ExtractionTypes |->
        IF type = "contractors"
        THEN <<"Extract all contractor information from the uploaded documents and provide it in a structured JSON format.", " ", "Format as an array of contractor objects.">>
        ELSE IF type = "pricing"
        THEN <<"Extract all pricing information from the uploaded documents and provide it in a structured JSON format.", " ", "Format as an array of pricing objects.">>
        ELSE <<"Extract all contract information from the uploaded documents and provide it in a structured JSON format.", " ", "Format as an array of contract objects.">>]

InitializeText == <<"Initialize document analysis session">>

SessionStartedText == <<"Session started successfully.">>

ErrorStartingText == <<"Error starting session.", " ", "Please try again.">>

\* results of model.generateContent in PropertyManagementChat
ManagementModelResponses ==
    { Rejected,
      Resolved(<<>>),
      Resolved(<<Candidate(NoContent)>>),
      Resolved(<<Candidate(Content(<<TextPart(AnswerText)>>))>>) }

\* One invocation of handleStartSession or handleSendMessage of
\* PropertyManagementChat.  input and history are the `input` and `messages`
\* of the render whose closure the invocation runs in; extraction is the
\* type handleStructuredExtraction was called with when the invocation was
\* made by it ("none" otherwise); userTurn and sentText record the user turn
\* the invocation appended and the text of the user turn it passed to the
\* model.
NoCall ==
    [handler |-> "handleSendMessage", pc |-> "returned", input |-> <<>>,
     history |-> <<>>, extraction |-> "none", userTurn |-> <<>>, sentText |-> <<>>]

\* the component has mounted with uploaded files and a signed-in user
ManagementMounted ==
    [messages |-> <<>>, input |-> <<>>, isLoading |-> FALSE, sessionActive |-> FALSE,
     calls |-> <<>>]

managerVars ==
    <<messages, input, isLoading, sessionActive, chatSession, sessionInitializing,
      continuousImprovementSessionId, currentWorkspace, turns, pendingInits,
      sessionsCreated, resets, workspaceChanges, feedbackDialogOpen, pendingFeedback,
      pendingMessageIndex, feedbackCalls, feedbackComment, citations, toast>>

\* onChange of the input field (rendered while the session is active,
\* disabled while isLoading)
ManagementTypeInput(txt) ==
    /\ management.sessionActive
    /\ ~management.isLoading
    /\ management.input # txt
    /\ management' = [management EXCEPT !.input = txt]
    /\ UNCHANGED managerVars

\* handleStartSession up to its first await: loadLatestPrompt.  The button
\* is shown while the session is not active.
HandleStartSession ==
    /\ Len(management.calls) < MaxEvents
    /\ ~management.sessionActive
    /\ management' =
          [management EXCEPT
             !.calls = Append(@, [NoCall EXCEPT !.handler = "handleStartSession",
                                                !.pc = "load_prompt"])]
    /\ UNCHANGED managerVars

\* setMessages([]); setSessionActive(true); setInput(''); setIsLoading(true),
\* then the await of model.generateContent
BeginSession(c) ==
    [management EXCEPT
       !.messages = <<>>,
       !.sessionActive = TRUE,
       !.input = <<>>,
       !.isLoading = TRUE,
       !.calls[c].pc = "start_model"]

\* loadLatestPrompt of handleStartSession settled: with a saved prompt the
\* session begins, without one the default prompt is fetched
StartPromptSettled(c, o) ==
    /\ c \in 1..Len(management.calls)
    /\ management.calls[c].pc = "load_prompt"
    /\ management' =
          IF o.settled = "resolved" /\ o.prompt # <<>>
          THEN BeginSession(c)
          ELSE [management EXCEPT !.calls[c].pc = "fetch_default"]
    /\ UNCHANGED managerVars

\* fetch('/docs/gemini_instructions.md') settled: when it fails the handler
\* throws, before its try block
DefaultPromptSettled(c, o) ==
    /\ c \in 1..Len(management.calls)
    /\ management.calls[c].pc = "fetch_default"
    /\ management' =
          IF o = "resolved"
          THEN BeginSession(c)
          ELSE [management EXCEPT !.calls[c].pc = "threw"]
    /\ UNCHANGED managerVars

\* the model call of handleStartSession settled: try / catch / finally
StartModelSettled(c, r) ==
    /\ c \in 1..Len(management.calls)
    /\ management.calls[c].pc = "start_model"
    /\ management' =
          [management EXCEPT
             !.messages =
                 IF r.settled = "resolved" /\ Len(r.candidates) > 0
                 THEN <<UserMessage(InitializeText),
                        ModelMessage(PartsOr(r.candidates[1].content,
                                             SessionStartedText))>>
                 ELSE <<UserMessage(InitializeText),
                        ModelMessage(<<TextPart(ErrorStartingText)>>)>>,
             !.isLoading = FALSE,
             !.calls[c].pc = "returned"]
    /\ UNCHANGED managerVars

\* handleSendMessage() of PropertyManagementChat up to its await.  It reads
\* the `input` and `isLoading` of its closure: closureInput is that input,
\* and the input cell may hold another value when the handler is entered.
ManagementHandleSendMessage(closureInput, extraction) ==
    /\ Len(management.calls) < MaxEvents
    /\ management' =
          IF Trim(closureInput) = <<>> \/ management.isLoading
          THEN [management EXCEPT
                  !.input = IF extraction = "none" THEN @ ELSE prompts[extraction],
                  !.calls = Append(@, [NoCall EXCEPT !.extraction = extraction])]
          ELSE [management EXCEPT
                  !.messages = Append(@, UserMessage(closureInput)),
                  !.input = <<>>,
                  !.isLoading = TRUE,
                  !.calls = Append(@, [NoCall EXCEPT
                                         !.pc = "model",
                                         !.input = closureInput,
                                         !.history = management.messages,
                                         !.extraction = extraction,
                                         !.userTurn = closureInput,
                                         !.sentText = closureInput])]
    /\ UNCHANGED managerVars

\* the send button: disabled={!input.trim() || isLoading}
ManagementSendButtonClick ==
    /\ management.sessionActive
    /\ ~(Trim(management.input) = <<>> \/ management.isLoading)
    /\ ManagementHandleSendMessage(management.input, "none")

\* handleKeyPress with Enter (the field is disabled while isLoading)
ManagementEnterKeyPress ==
    /\ management.sessionActive
    /\ ~management.isLoading
    /\ ManagementHandleSendMessage(management.input, "none")

\* handleStructuredExtraction(type): the buttons are shown while the session
\* is active and are disabled while isLoading.  setInput(prompts[type]), then
\* handleSendMessage() of the same render, whose `input` is still the value
\* the field held before the click.
HandleStructuredExtraction(type) ==
    /\ management.sessionActive
    /\ ~management.isLoading
    /\ ManagementHandleSendMessage(management.input, type)

\* the model call of handleSendMessage settled: try / catch / finally
ManagementModelSettled(c, r) ==
    /\ c \in 1..Len(management.calls)
    /\ management.calls[c].pc = "model"
    /\ management' =
          [management EXCEPT
             !.messages =
                 Append(@, IF r.settled = "resolved" /\ Len(r.candidates) > 0
                           THEN ModelMessage(PartsOr(r.candidates[1].content,
                                                     CouldNotGenerateText))
                           ELSE ErrorMessage),
             !.isLoading = FALSE,
             !.calls[c].pc = "returned",
             !.calls[c].input = <<>>,
             !.calls[c].history = <<>>]
    /\ UNCHANGED managerVars

ManagementNext ==
    \/ \E txt \in TypedTexts : ManagementTypeInput(txt)
    \/ HandleStartSession
    \/ \E c \in 1..Len(management.calls), o \in LoadPromptOutcomes :
          StartPromptSettled(c, o)
    \/ \E c \in 1..Len(management.calls), o \in Settlements :
          DefaultPromptSettled(c, o)
    \/ \E c \in 1..Len(management.calls), r \in ManagementModelResponses :
          StartModelSettled(c, r)
    \/ ManagementSendButtonClick
    \/ ManagementEnterKeyPress
    \/ \E type \in ExtractionTypes : HandleStructuredExtraction(type)
    \/ \E c \in 1..Len(management.calls), r \in ManagementModelResponses :
          ManagementModelSettled(c, r)

\* ------------------------------------------------------------------- Init
\* The component has mounted with a signed-in user: every useState cell holds
\* its initial value, except that the mount effect has run up to its await
\* (setSessionInitializing(true), the three clearing calls) and its
\* initializeChatSession call is outstanding.
Mounted ==
    /\ messages = <<>>
    /\ input = <<>>
    /\ isLoading = FALSE
    /\ sessionActive = FALSE
    /\ chatSession = NoSession
    /\ sessionInitializing = TRUE
    /\ continuousImprovementSessionId = 0
    /\ currentWorkspace = "purchaser"
    /\ turns = <<>>
    /\ pendingInits = << [src |-> "effect", workspace |-> "purchaser"] >>
    /\ sessionsCreated = 0
    /\ resets = 0
    /\ workspaceChanges = 0
    /\ feedbackDialogOpen = FALSE
    /\ pendingFeedback = "null"
    /\ pendingMessageIndex = 0
    /\ feedbackCalls = <<>>
    /\ feedbackComment = <<>>
    /\ toast = <<>>
    /\ management = ManagementMounted

\* no message of the history carries citation sources
Init ==
    /\ Mounted
    /\ citations = NotRendered(<<>>, <<>>)

feedbackVars == <<feedbackDialogOpen, pendingFeedback, pendingMessageIndex, feedbackCalls,
                  feedbackComment>>

sessionVars == <<sessionActive, chatSession, sessionInitializing, currentWorkspace,
                 pendingInits, resets, workspaceChanges, feedbackDialogOpen,
                 pendingFeedback, pendingMessageIndex, feedbackCalls, feedbackComment>>

\* ---------------------------------------------------------------- actions
\* onChange of the input field (the field is disabled while isLoading)
TypeInput(txt) ==
    /\ ~isLoading
    /\ input # txt
    /\ input' = txt
    /\ UNCHANGED <<messages, isLoading, continuousImprovementSessionId, turns,
                   sessionsCreated>>
    /\ UNCHANGED sessionVars
    /\ UNCHANGED <<citations, toast, management>>

\* handleSendMessage(messageText) up to its first await.  inputNow is the
\* value the input cell has when the handler is entered (handleQuickAction
\* sets it just before); the handler itself reads the `input` of its closure.
HandleSendMessage(arg, inputNow) ==
    LET textToSend == IF Truthy(arg) THEN arg.text ELSE input
        accepted   == ~GuardRejects(textToSend)
        rec        == NewTurn(arg, textToSend)
    IN  /\ UserEvents < MaxEvents
        /\ IF ~accepted
           THEN \* return at the guard
                /\ turns' = Append(Forget(turns), RejectedCall(textToSend))
                /\ input' = inputNow
                /\ UNCHANGED <<messages, isLoading>>
           ELSE IF rec.ciSid = 0
           THEN \* await initializeContinuousImprovement()
                /\ turns' = Append(Forget(turns), [rec EXCEPT !.pc = "create_session"])
                /\ input' = inputNow
                /\ UNCHANGED <<messages, isLoading>>
           ELSE LET res == AfterUserTurn([rec EXCEPT !.userAppended = TRUE])
                IN  /\ turns' = Append(Forget(turns), res.turn)
                    /\ messages' = Append(messages, UserMessage(textToSend)) \o res.out
                    /\ input' = IF ~Truthy(arg) THEN <<>> ELSE inputNow
                    /\ isLoading' = TRUE
        /\ UNCHANGED <<continuousImprovementSessionId, sessionsCreated>>
        /\ UNCHANGED sessionVars
        /\ UNCHANGED <<citations, toast, management>>

\* the send button: disabled={!input.trim() || isLoading}
SendButtonClick ==
    /\ ~(Trim(input) = <<>> \/ isLoading)
    /\ HandleSendMessage(NoArgument, input)

\* handleKeyPress with Enter in the input field (disabled while isLoading)
EnterKeyPress ==
    /\ ~isLoading
    /\ HandleSendMessage(NoArgument, input)

\* handleQuickAction(action): setInput(action); handleSendMessage(action).
\* The quick-action buttons are never disabled.
QuickActionClick(i) ==
    /\ i <= Len(quickActions)
    /\ HandleSendMessage(Argument(quickActions[i]), quickActions[i])

\* the rest of the handler after an await: write back the locals, append
\* the turns the segment produced, release the guard if finally ran
Resume(t, res) ==
    /\ turns' = [turns EXCEPT ![t] = res.turn]
    /\ messages' = messages \o res.out
    /\ isLoading' = IF res.fin THEN FALSE ELSE isLoading
    /\ UNCHANGED <<input, continuousImprovementSessionId, sessionsCreated>>
    /\ UNCHANGED sessionVars
    /\ UNCHANGED <<citations, toast, management>>

\* initializeContinuousImprovement: createContinuousImprovementSession
\* settled; the handler goes on with the user turn.  The closure still holds
\* the null session id, so no user_message is logged in this invocation.
CreateSessionSettled(t, outcome) ==
    /\ turns[t].pc = "create_session"
    /\ LET rec == turns[t]
           res == AfterUserTurn([rec EXCEPT !.userAppended = TRUE])
       IN  /\ turns' = [turns EXCEPT ![t] = res.turn]
           /\ messages' = Append(messages, UserMessage(rec.textToSend)) \o res.out
           /\ input' = IF ~Truthy(rec.messageText) THEN <<>> ELSE input
           /\ isLoading' = TRUE
    /\ IF outcome = "resolved"
       THEN /\ sessionsCreated' = sessionsCreated + 1
            /\ continuousImprovementSessionId' = sessionsCreated + 1
       ELSE UNCHANGED <<sessionsCreated, continuousImprovementSessionId>>
    /\ UNCHANGED sessionVars
    /\ UNCHANGED <<citations, toast, management>>

\* await addTechnicalLog({event: 'user_message'}) settled
UserMessageLogSettled(t, outcome) ==
    /\ turns[t].pc = "log_user_message"
    /\ Resume(t, AfterLog(turns[t], outcome))

LoadPromptSettled(t, o) ==
    /\ turns[t].pc = "load_prompt"
    /\ Resume(t, AfterLoadPrompt(turns[t], o))

FirstModelCallSettled(t, r) ==
    /\ turns[t].pc = "model"
    /\ Resume(t, AfterFirstResponse(turns[t], r))

TriggeredLogSettled(t, outcome) ==
    /\ turns[t].pc = "log_triggered"
    /\ Resume(t, AfterLog(turns[t], outcome))

SearchSettled(t, o) ==
    /\ turns[t].pc = "search"
    /\ Resume(t, AfterSearch(turns[t], o))

SuccessLogSettled(t, outcome) ==
    /\ turns[t].pc = "log_success"
    /\ Resume(t, AfterLog(turns[t], outcome))

FollowUpModelCallSettled(t, r) ==
    /\ turns[t].pc = "follow_up"
    /\ Resume(t, AfterFollowUp(turns[t], r))

FollowUpResponseLogSettled(t, outcome) ==
    /\ turns[t].pc = "log_follow_up_response"
    /\ Resume(t, AfterLog(turns[t], outcome))

ResponseLogSettled(t, outcome) ==
    /\ turns[t].pc = "log_response"
    /\ Resume(t, AfterLog(turns[t], outcome))

chatVars == <<input, isLoading, continuousImprovementSessionId, turns, sessionsCreated,
              feedbackDialogOpen, pendingFeedback, pendingMessageIndex, feedbackCalls,
              feedbackComment>>

\* the body of the useEffect up to its await: runs when currentWorkspace
\* changes (and on mount, see Init)
ChangeWorkspace(ws) ==
    /\ UserEvents < MaxEvents
    /\ ws # currentWorkspace
    /\ currentWorkspace' = ws
    /\ workspaceChanges' = workspaceChanges + 1
    /\ sessionInitializing' = TRUE
    /\ sessionActive' = FALSE
    /\ messages' = <<>>
    /\ chatSession' = NoSession
    /\ pendingInits' = Append(pendingInits, [src |-> "effect", workspace |-> ws])
    /\ UNCHANGED <<input, isLoading, continuousImprovementSessionId, turns,
                   sessionsCreated, resets>>
    /\ UNCHANGED feedbackVars
    /\ UNCHANGED <<citations, toast, management>>

\* handleResetChat up to its await
ResetChat ==
    /\ UserEvents < MaxEvents
    /\ resets' = resets + 1
    /\ messages' = <<>>
    /\ sessionActive' = FALSE
    /\ chatSession' = NoSession
    /\ input' = <<>>
    /\ sessionInitializing' = TRUE
    /\ toast' = ChatResetToast
    /\ pendingInits' = Append(pendingInits,
                              [src |-> "reset", workspace |-> currentWorkspace])
    /\ UNCHANGED <<isLoading, continuousImprovementSessionId, turns, sessionsCreated,
                   currentWorkspace, workspaceChanges>>
    /\ UNCHANGED feedbackVars
    /\ UNCHANGED <<citations, management>>

Remove(seq, i) == SubSeq(seq, 1, i - 1) \o SubSeq(seq, i + 1, Len(seq))

\* initializeChatSession of the effect settled: try / catch / finally of
\* initializeSession
InitializeSessionSettled(i, o) ==
    /\ i \in 1..Len(pendingInits)
    /\ pendingInits[i].src = "effect"
    /\ pendingInits' = Remove(pendingInits, i)
    /\ IF o.settled = "resolved"
       THEN /\ chatSession' = ChatSessionOf(pendingInits[i].workspace, o.docs)
            /\ messages' = <<WelcomeMessage(pendingInits[i].workspace, o.docs)>>
            /\ sessionActive' = TRUE
            /\ toast' = WelcomeToast(o.docs)
       ELSE /\ toast' = InitFailureToast(pendingInits[i].workspace, o.error)
            /\ messages' = <<>>
            /\ sessionActive' = FALSE
            /\ UNCHANGED chatSession
    /\ sessionInitializing' = FALSE
    /\ UNCHANGED <<currentWorkspace, resets, workspaceChanges>>
    /\ UNCHANGED chatVars
    /\ UNCHANGED <<citations, management>>

\* initializeChatSession of handleResetChat settled
ResetSessionSettled(i, o) ==
    /\ i \in 1..Len(pendingInits)
    /\ pendingInits[i].src = "reset"
    /\ pendingInits' = Remove(pendingInits, i)
    /\ IF o.settled = "resolved"
       THEN /\ chatSession' = ChatSessionOf(pendingInits[i].workspace, o.docs)
            /\ toast' = SessionRefreshedToast
       ELSE UNCHANGED <<chatSession, toast>>
    /\ sessionInitializing' = FALSE
    /\ UNCHANGED <<messages, sessionActive, currentWorkspace, resets, workspaceChanges>>
    /\ UNCHANGED chatVars
    /\ UNCHANGED <<citations, management>>

\* the comments typed into the feedback dialog
FeedbackComments == {<<>>, <<"c">>}

\* the record of a handleFeedback or submitFeedback invocation that holds
\* nothing: feedback, messageIndex, sid and comment are the locals and the
\* closure's values the invocation still needs, logCalls the addTechnicalLog
\* calls it has made
NoFeedbackCall ==
    [pc |-> "done", feedback |-> "null", messageIndex |-> 0, sid |-> 0,
     comment |-> <<>>, logCalls |-> <<>>]

\* the setState calls that end handleFeedback: they store the pending
\* feedback, clear the comment and open the dialog
OpenFeedbackDialog(feedback, messageIndex) ==
    /\ pendingFeedback' = feedback
    /\ pendingMessageIndex' = messageIndex
    /\ feedbackComment' = <<>>
    /\ feedbackDialogOpen' = TRUE

\* handleFeedback(feedback, messageIndex), from a button under a model turn,
\* up to its await: without a telemetry session it awaits
\* initializeContinuousImprovement()
HandleFeedback(feedback, messageIndex) ==
    /\ UserEvents < MaxEvents
    /\ messageIndex \in 1..Len(messages)
    /\ messages[messageIndex].role = "model"
    /\ IF continuousImprovementSessionId = 0
       THEN /\ feedbackCalls' = Append(feedbackCalls,
                                       [NoFeedbackCall EXCEPT
                                          !.pc = "create_session",
                                          !.feedback = feedback,
                                          !.messageIndex = messageIndex])
            /\ UNCHANGED <<feedbackDialogOpen, pendingFeedback, pendingMessageIndex,
                           feedbackComment>>
       ELSE /\ feedbackCalls' = Append(feedbackCalls, NoFeedbackCall)
            /\ OpenFeedbackDialog(feedback, messageIndex)
    /\ UNCHANGED <<messages, input, isLoading, continuousImprovementSessionId, turns,
                   sessionsCreated, sessionActive, chatSession, sessionInitializing,
                   currentWorkspace, pendingInits, resets, workspaceChanges>>
    /\ UNCHANGED <<citations, toast, management>>

\* createContinuousImprovementSession of a handleFeedback invocation settled:
\* initializeContinuousImprovement stores the session id (or logs the
\* error), then handleFeedback opens the dialog
FeedbackSessionSettled(f, outcome) ==
    /\ f \in 1..Len(feedbackCalls)
    /\ feedbackCalls[f].pc = "create_session"
    /\ feedbackCalls' = [feedbackCalls EXCEPT ![f] = NoFeedbackCall]
    /\ OpenFeedbackDialog(feedbackCalls[f].feedback, feedbackCalls[f].messageIndex)
    /\ IF outcome = "resolved"
       THEN /\ sessionsCreated' = sessionsCreated + 1
            /\ continuousImprovementSessionId' = sessionsCreated + 1
       ELSE UNCHANGED <<sessionsCreated, continuousImprovementSessionId>>
    /\ UNCHANGED <<messages, input, isLoading, turns, sessionActive, chatSession,
                   sessionInitializing, currentWorkspace, pendingInits, resets,
                   workspaceChanges>>
    /\ UNCHANGED <<citations, toast, management>>

\* the four setState calls of cancelFeedback, which submitFeedback makes too
CloseFeedbackDialog ==
    /\ feedbackDialogOpen' = FALSE
    /\ pendingFeedback' = "null"
    /\ pendingMessageIndex' = 0
    /\ feedbackComment' = <<>>

\* cancelFeedback: the Skip button of the dialog
CancelFeedback ==
    /\ feedbackDialogOpen
    /\ CloseFeedbackDialog
    /\ UNCHANGED <<messages, input, isLoading, continuousImprovementSessionId, turns,
                   sessionsCreated, sessionActive, chatSession, sessionInitializing,
                   currentWorkspace, pendingInits, resets, workspaceChanges,
                   feedbackCalls>>
    /\ UNCHANGED <<citations, toast, management>>

\* onChange of the comment field of the dialog
TypeFeedbackComment(txt) ==
    /\ feedbackDialogOpen
    /\ feedbackComment # txt
    /\ feedbackComment' = txt
    /\ UNCHANGED <<messages, input, isLoading, continuousImprovementSessionId, turns,
                   sessionsCreated, sessionActive, chatSession, sessionInitializing,
                   currentWorkspace, pendingInits, resets, workspaceChanges,
                   feedbackCalls, feedbackDialogOpen, pendingFeedback,
                   pendingMessageIndex>>
    /\ UNCHANGED <<citations, toast, management>>

\* the aiResponse that submitFeedback logs; the message index of the source
\* counts from 0
FeedbackLogText(messageIndex, feedback, comment) ==
    <<"User feedback for message", " ", ToString(messageIndex - 1), ":", " ", feedback>>
    \o (IF comment # <<>> THEN <<" ", "-", " ", "Comment:", " ">> \o comment ELSE <<>>)

\* submitFeedback(), from the Submit button of the dialog, up to its first
\* await: addTechnicalLog with the event 'ai_response'
SubmitFeedback ==
    /\ UserEvents < MaxEvents
    /\ feedbackDialogOpen
    /\ feedbackCalls' =
          Append(feedbackCalls,
                 IF continuousImprovementSessionId = 0 \/ pendingFeedback = "null"
                    \/ pendingMessageIndex = 0
                 THEN NoFeedbackCall
                 ELSE [pc |-> "feedback_log",
                       feedback |-> pendingFeedback,
                       messageIndex |-> pendingMessageIndex,
                       sid |-> continuousImprovementSessionId,
                       comment |-> feedbackComment,
                       logCalls |->
                           <<[event |-> "ai_response",
                              sid |-> continuousImprovementSessionId,
                              aiRequestId |-> 0,
                              aiResponse |-> FeedbackLogText(pendingMessageIndex,
                                                             pendingFeedback,
                                                             feedbackComment)]>>])
    /\ UNCHANGED <<messages, input, isLoading, continuousImprovementSessionId, turns,
                   sessionsCreated, sessionActive, chatSession, sessionInitializing,
                   currentWorkspace, pendingInits, resets, workspaceChanges,
                   feedbackDialogOpen, pendingFeedback, pendingMessageIndex,
                   feedbackComment>>
    /\ UNCHANGED <<citations, toast, management>>

\* the end of a submitFeedback invocation: its locals are dropped, the
\* record of its log calls is kept
FeedbackReturned(rec) == [NoFeedbackCall EXCEPT !.logCalls = rec.logCalls]

\* addTechnicalLog of a submitFeedback invocation settled: the handler goes
\* on to await setUserFeedback, or its catch block shows the error toast
FeedbackLogSettled(f, outcome) ==
    /\ f \in 1..Len(feedbackCalls)
    /\ feedbackCalls[f].pc = "feedback_log"
    /\ IF outcome = "resolved"
       THEN /\ feedbackCalls' = [feedbackCalls EXCEPT ![f].pc = "set_feedback"]
            /\ UNCHANGED toast
       ELSE /\ feedbackCalls' = [feedbackCalls EXCEPT
                                    ![f] = FeedbackReturned(feedbackCalls[f])]
            /\ toast' = FailedToSaveFeedbackToast
    /\ UNCHANGED <<messages, input, isLoading, continuousImprovementSessionId, turns,
                   sessionsCreated, sessionActive, chatSession, sessionInitializing,
                   currentWorkspace, pendingInits, resets, workspaceChanges,
                   feedbackDialogOpen, pendingFeedback, pendingMessageIndex,
                   feedbackComment>>
    /\ UNCHANGED <<citations, management>>

\* setUserFeedback of a submitFeedback invocation settled: the dialog is
\* closed and the thanks are shown, or the catch block shows the error toast
SetUserFeedbackSettled(f, outcome) ==
    /\ f \in 1..Len(feedbackCalls)
    /\ feedbackCalls[f].pc = "set_feedback"
    /\ feedbackCalls' = [feedbackCalls EXCEPT ![f] = FeedbackReturned(feedbackCalls[f])]
    /\ IF outcome = "resolved"
       THEN /\ CloseFeedbackDialog
            /\ toast' = ThanksToast(feedbackCalls[f].feedback)
       ELSE /\ toast' = FailedToSaveFeedbackToast
            /\ UNCHANGED <<feedbackDialogOpen, pendingFeedback, pendingMessageIndex,
                           feedbackComment>>
    /\ UNCHANGED <<messages, input, isLoading, continuousImprovementSessionId, turns,
                   sessionsCreated, sessionActive, chatSession, sessionInitializing,
                   currentWorkspace, pendingInits, resets, workspaceChanges>>
    /\ UNCHANGED <<citations, management>>

Turns == 1..Len(turns)

Next ==
    \/ \E txt \in TypedTexts : TypeInput(txt)
    \/ SendButtonClick
    \/ EnterKeyPress
    \/ \E i \in 1..QuickActionsExplored : QuickActionClick(i)
    \/ \E t \in Turns, o \in Settlements : CreateSessionSettled(t, o)
    \/ \E t \in Turns, o \in Settlements : UserMessageLogSettled(t, o)
    \/ \E t \in Turns, o \in LoadPromptOutcomes : LoadPromptSettled(t, o)
    \/ \E t \in Turns, r \in FirstModelResponses : FirstModelCallSettled(t, r)
    \/ \E t \in Turns, o \in Settlements : TriggeredLogSettled(t, o)
    \/ \E t \in Turns, o \in SearchOutcomes : SearchSettled(t, o)
    \/ \E t \in Turns, o \in Settlements : SuccessLogSettled(t, o)
    \/ \E t \in Turns, r \in FollowUpModelResponses : FollowUpModelCallSettled(t, r)
    \/ \E t \in Turns, o \in Settlements : FollowUpResponseLogSettled(t, o)
    \/ \E t \in Turns, o \in Settlements : ResponseLogSettled(t, o)
    \/ \E ws \in Workspaces : ChangeWorkspace(ws)
    \/ ResetChat
    \/ \E i \in 1..Len(pendingInits), o \in InitOutcomes : InitializeSessionSettled(i, o)
    \/ \E i \in 1..Len(pendingInits), o \in InitOutcomes : ResetSessionSettled(i, o)
    \/ \E fb \in Polarities, i \in 1..Len(messages) : HandleFeedback(fb, i)
    \/ \E f \in 1..Len(feedbackCalls), o \in Settlements : FeedbackSessionSettled(f, o)
    \/ CancelFeedback
    \/ \E txt \in FeedbackComments : TypeFeedbackComment(txt)
    \/ SubmitFeedback
    \/ \E f \in 1..Len(feedbackCalls), o \in Settlements : FeedbackLogSettled(f, o)
    \/ \E f \in 1..Len(feedbackCalls), o \in Settlements : SetUserFeedbackSettled(f, o)

Spec == Init /\ [][Next]_vars

\* ------------------------------------------- rendering a turn with citations
\* the render of one text part of a turn: the call
\* processTextWithCitations(part.text, message.citationMetadata?.citationSources)
RenderCitations ==
    /\ ~citations.rendered
    /\ citations' =
          [citations EXCEPT
             !.rendered = TRUE,
             !.originalText =
                 processTextWithCitations(citations.text,
                                          citations.citationSources).originalText,
             !.formattedSources =
                 processTextWithCitations(citations.text,
                                          citations.citationSources).formattedSources]
    /\ UNCHANGED <<messages, input, isLoading, sessionActive, chatSession,
                   sessionInitializing, continuousImprovementSessionId,
                   currentWorkspace, turns, pendingInits, sessionsCreated, resets,
                   workspaceChanges, feedbackDialogOpen, pendingFeedback,
                   pendingMessageIndex, feedbackCalls, feedbackComment, toast,
                   management>>

\* a text part and any list of citation sources
CitationsInit ==
    /\ Mounted
    /\ \E sources \in SourceLists : citations = NotRendered(AnswerText, sources)

CitationsNext == RenderCitations

CitationsSpec == CitationsInit /\ [][CitationsNext]_vars

\* a PropertyManagementChat on its own
ManagementSpec == Init /\ [][ManagementNext]_vars

\* ================================================================= claims
\* an invocation that passed the guard and has neither returned nor thrown
InFlight(rec) == ~Returned(rec)

\* an invocation that passed the guard and has returned or thrown
Completed(rec) == rec.pc \in {"done", "threw"}

EventsOf(rec) == {rec.logCalls[i].event : i \in 1..Len(rec.logCalls)}

NoCandidates(r) == r.settled = "resolved" /\ Len(r.candidates) = 0

NoUsableCandidate(r) ==
    r.settled = "resolved" /\ (Len(r.candidates) = 0 \/ ~r.candidates[1].content.defined)

HasToken(txt, token) == \E i \in 1..Len(txt) : txt[i] = token

\* C1: at most one turn is in flight at any time, that is, every
\* handleSendMessage invocation that starts between the acceptance and the
\* completion of an earlier turn is rejected at the guard.
C1_AtMostOneTurnInFlight ==
    Cardinality({t \in Turns : InFlight(turns[t])}) <= 1

\* C2: a turn whose user turn has been appended always completes, and has
\* then appended a model turn after it.
C2_TurnEndsWithModelTurn ==
    \A t \in Turns :
        (Completed(turns[t]) /\ turns[t].userAppended)
        => /\ turns[t].pc = "done"
           /\ turns[t].appended # <<>>
           /\ turns[t].appended[Len(turns[t].appended)].role = "model"

\* C3: one accepted handleSendMessage call that runs to its end appends
\* exactly two entries to the history: the user turn and one model turn.
C3_HistoryGrowsByTwo ==
    \A t \in Turns :
        turns[t].pc = "done" => (turns[t].userAppended /\ Len(turns[t].appended) = 1)

\* C4: when an awaited telemetry write settles, the turn goes on exactly as
\* it does when the write succeeds, whatever the outcome of the write: the
\* same model turn is appended, nothing is thrown out of handleSendMessage
\* and the guard is released as on success.
C4_TelemetryFailureIsInvisible ==
    [][\A t \in Turns :
          (turns[t].pc \in TelemetryAwaits /\ turns'[t] # turns[t])
          => /\ turns'[t] = AfterLogResolved(turns[t]).turn
             /\ messages' = messages \o AfterLogResolved(turns[t]).out
             /\ isLoading' = (isLoading /\ ~AfterLogResolved(turns[t]).fin)]_vars

\* C5: every accepted turn that has completed, by success or by failure of
\* any collaborator, has released the in-flight guard exactly once, and once
\* no turn is in flight the guard is free, so the next call is accepted.
C5_GuardReleasedOnce ==
    /\ \A t \in Turns : Completed(turns[t]) => turns[t].releases = 1
    /\ (\A t \in Turns : ~InFlight(turns[t])) => ~isLoading

\* C6: a turn that was accepted before a reset or a workspace switch never
\* appends its result (answer turn or error turn) to the history.
C6_StaleResultDiscarded ==
    [][\A t \in Turns :
          (InFlight(turns[t]) /\ turns[t].generation < resets + workspaceChanges)
          => turns'[t].appended = turns[t].appended]_vars

\* C7: when searchRecords throws, the turn ends with exactly one appended
\* model turn whose text contains "encountered an error", a
\* function_call_error event is emitted if the turn has a telemetry session,
\* and no second model call is made.
C7_SearchFailureTurn ==
    \A t \in Turns :
        (turns[t].pc = "done" /\ turns[t].searchSettled = "rejected")
        => /\ Len(turns[t].appended) = 1
           /\ Len(turns[t].appended[1].parts) = 1
           /\ HasToken(turns[t].appended[1].parts[1].text, "encountered an error")
           /\ turns[t].modelCalls = 1
           /\ (turns[t].logCalls # <<>> => "function_call_error" \in EventsOf(turns[t]))

\* C8: when the follow-up model call returns zero candidates or a first
\* candidate without content, the generic error turn is appended.
C8_FollowUpWithoutCandidateFails ==
    \A t \in Turns :
        (turns[t].pc = "done" /\ NoUsableCandidate(turns[t].followUpResponse))
        => turns[t].appended = <<ErrorMessage>>

\* C9: when the first model call of a turn returns zero candidates, the turn
\* appends the generic error turn, makes no search call and no second model
\* call, and emits no ai_response event.
C9_NoCandidatesIsGenericError ==
    \A t \in Turns :
        (turns[t].pc = "done" /\ NoCandidates(turns[t].response))
        => /\ turns[t].appended = <<ErrorMessage>>
           /\ turns[t].searchCalls = 0
           /\ turns[t].modelCalls = 1
           /\ "ai_response" \notin EventsOf(turns[t])

\* C9 witness: a turn with a telemetry session whose first model call
\* returned zero candidates has completed.
C9_Witness ==
    \E t \in Turns :
        /\ turns[t].pc = "done"
        /\ NoCandidates(turns[t].response)
        /\ "user_message" \in EventsOf(turns[t])
        /\ messages # <<>>
        /\ messages[Len(messages)] = ErrorMessage

\* C10: a handleSendMessage call whose text is empty or whitespace-only
\* changes neither history, input nor isLoading, and makes no collaborator
\* call: no telemetry session is created, no model, search or telemetry call
\* is issued.
C10_BlankInputIsNoOp ==
    [][(Len(turns') = Len(turns) + 1 /\ turns'[Len(turns')].blankSeen)
       => /\ messages' = messages
          /\ input' = input
          /\ isLoading' = isLoading
          /\ continuousImprovementSessionId' = continuousImprovementSessionId
          /\ sessionsCreated' = sessionsCreated
          /\ turns'[Len(turns')].pc = "noop"
          /\ turns'[Len(turns')].modelCalls = 0
          /\ turns'[Len(turns')].searchCalls = 0
          /\ turns'[Len(turns')].logCalls = <<>>]_vars

\* C10 witness: handleSendMessage was called with a whitespace-only input
\* while no turn was in flight.
C10_Witness ==
    \E t \in Turns :
        /\ turns[t].pc = "noop"
        /\ turns[t].blankSeen
        /\ ~turns[t].loadingSeen
        /\ input = <<" ">>

\* the first model response held a search_purchase_orders function call
FunctionCallObserved(r) ==
    /\ r.settled = "resolved"
    /\ Len(r.candidates) > 0
    /\ SearchCallPositions(r.candidates[1].content) # {}

\* C11: the search_purchase_orders declaration is attached to the first model
\* invocation of a turn only; the follow-up invocation is issued without the
\* tool schema.
C11_FollowUpWithoutToolSchema ==
    \A t \in Turns :
        /\ turns[t].pc = "model" => turns[t].request.tools = {searchERPFunctionName}
        /\ turns[t].pc = "follow_up" => turns[t].request.tools = {}

C13_TelemetryNeverAwaited ==
    \A t \in Turns : turns[t].pc \notin TelemetryAwaits

\* C14: within one turn the search call is issued only after a first model
\* response with a search_purchase_orders function call has been observed,
\* the function response is built from the result the search returned, and
\* the second model call is issued only after the search has returned.
C14_StepsAreSequential ==
    \A t \in Turns :
        /\ turns[t].searchCalls >= 1
           => (turns[t].modelCalls >= 1 /\ FunctionCallObserved(turns[t].response))
        /\ turns[t].pc = "search" => turns[t].modelCalls = 1
        /\ turns[t].modelCalls = 2
           => (turns[t].searchCalls = 1 /\ turns[t].searchSettled = "resolved")
        /\ turns[t].pc = "follow_up"
           => /\ turns[t].searchResult.settled = "resolved"
              /\ turns[t].request.functionResponse
                  = FunctionResponseOf(turns[t].searchResult)
              /\ Len(turns[t].request.contents) = Len(turns[t].history) + 4

\* C14 witness: the follow-up call is outstanding and carries the three
\* records the search returned.
C14_Witness ==
    \E t \in Turns :
        /\ turns[t].pc = "follow_up"
        /\ Len(turns[t].request.functionResponse.records) = 3
        /\ turns[t].request.functionResponse.totalCount = 3

\* C15: no turn of the visible history carries a functionCall part.
C15_NoFunctionCallInHistory ==
    \A i \in 1..Len(messages) :
        \A j \in 1..Len(messages[i].parts) :
            messages[i].parts[j].kind # "functionCall"

\* the follow-up response has content whose text is empty: its first part
\* is a text part with the empty string
EmptyFollowUpText(r) ==
    /\ r.settled = "resolved"
    /\ Len(r.candidates) > 0
    /\ r.candidates[1].content.defined
    /\ r.candidates[1].content.hasParts
    /\ Len(r.candidates[1].content.parts) > 0
    /\ r.candidates[1].content.parts[1].kind = "text"
    /\ Trim(r.candidates[1].content.parts[1].text) = <<>>

\* C16: after a successful function round-trip, a follow-up response whose
\* text is empty is appended as the fixed fallback string, not as a blank
\* turn.
C16_EmptyFollowUpGetsFallback ==
    \A t \in Turns :
        (turns[t].pc = "done" /\ EmptyFollowUpText(turns[t].followUpResponse))
        => turns[t].appended = <<ModelMessage(<<TextPart(CouldNotFormatText)>>)>>

\* the number of user_message events an invocation has written
UserMessageEvents(rec) ==
    Cardinality({i \in 1..Len(rec.logCalls) : rec.logCalls[i].event = "user_message"})

\* C17: every accepted turn of a conversation that has a telemetry session
\* has emitted exactly one user_message event by the time its first model
\* call is issued, the first turn of the conversation included.
C17_UserMessageLoggedOnce ==
    \A t \in Turns :
        (turns[t].pc = "model" /\ continuousImprovementSessionId # 0)
        => UserMessageEvents(turns[t]) = 1

\* C18: createContinuousImprovementSession completes successfully at most
\* once for one chat component, over every interleaving of handleSendMessage
\* and handleFeedback calls, and every telemetry event is written under the
\* session id it returned.
C18_TelemetrySessionCreatedOnce ==
    /\ sessionsCreated <= 1
    /\ \A t \in Turns :
          \A i \in 1..Len(turns[t].logCalls) :
              turns[t].logCalls[i].sid = continuousImprovementSessionId

\* C19: after every step the stored session context, if any, is the one
\* initialized for the current workspace, and every model call issued in the
\* step with a session context uses the context of the current workspace.
C19_SessionContextOfCurrentWorkspace ==
    [][/\ chatSession' # NoSession => chatSession'.workspace = currentWorkspace'
       /\ \A t \in 1..Len(turns') :
             (/\ turns'[t].modelCalls > (IF t \in Turns THEN turns[t].modelCalls ELSE 0)
              /\ turns'[t].session # NoSession)
             => /\ turns'[t].session.workspace = currentWorkspace'
                /\ turns'[t].request.contents[1]
                   = UserMessage(ChatSessionOf(currentWorkspace', 0).fullContext)]_vars

\* the position of the first source of the list with the given uri
FirstOccurrence(sources, uri) ==
    SetMin({i \in 1..Len(sources) : sources[i].uri = uri})

\* the list [{uri a, title X}, {uri a, title Y}, {uri b}]
ExampleSources ==
    << [uri |-> <<"a">>, title |-> <<"X">>],
       [uri |-> <<"a">>, title |-> <<"Y">>],
       [uri |-> <<"b">>, title |-> <<>>] >>

\* C20: processTextWithCitations lists every uri of the sources once, in the
\* order of the first occurrences, omits sources without a uri, numbers the
\* entries 1..n, and labels an entry with the title of the first source with
\* its uri, or with the uri when that title is absent or blank; for
\* [{uri a, title X}, {uri a, title Y}, {uri b}] the list has exactly the two
\* entries labelled X and b.
C20_CitationsDeduplicated ==
    citations.rendered =>
      LET src == citations.citationSources
          out == citations.formattedSources
      IN  /\ citations.originalText = citations.text
          /\ {out[k].uri : k \in 1..Len(out)}
             = {src[i].uri : i \in 1..Len(src)} \ {<<>>}
          /\ \A k \in 1..Len(out) :
                /\ out[k].sourceNumber = k
                /\ \A j \in 1..Len(out) :
                      j < k => FirstOccurrence(src, out[j].uri)
                               < FirstOccurrence(src, out[k].uri)
                /\ LET first == src[FirstOccurrence(src, out[k].uri)]
                   IN  out[k].linkDescription
                       = IF Trim(first.title) = <<>> THEN first.uri ELSE first.title
          /\ src = ExampleSources
             => /\ Len(out) = 2
                /\ out[1].linkDescription = <<"X">>
                /\ out[2].linkDescription = <<"b">>

\* C20 witness: the list of the example has been formatted into its two
\* entries.
C20_Witness ==
    /\ citations.rendered
    /\ citations.citationSources = ExampleSources
    /\ Len(citations.formattedSources) = 2

\* C21: on a successful search the second model invocation receives the
\* system-context turn, the prior history, the user turn, a model turn
\* holding the function-call part of the first response and a model turn
\* with a single functionResponse part named after the called function, and
\* the function response carries the instruction text and the records,
\* totalCount and processingTimeMs that the search returned.
C21_FollowUpContents ==
    \A t \in Turns :
        turns[t].pc = "follow_up" =>
          LET rec   == turns[t]
              sent  == rec.request.contents
              n     == Len(rec.history)
              first == rec.response.candidates[1].content
          IN  /\ Len(sent) = n + 4
              /\ sent[1] = [role |-> "user", parts |-> <<TextPart(rec.systemPrompt)>>]
              /\ SubSeq(sent, 2, n + 1) = rec.history
              /\ sent[n + 2] = [role |-> "user", parts |-> <<TextPart(rec.textToSend)>>]
              /\ sent[n + 3].role = "model"
              /\ Len(sent[n + 3].parts) = 1
              /\ sent[n + 3].parts[1].kind = "functionCall"
              /\ sent[n + 3].parts[1].name = searchERPFunctionName
              /\ \E i \in 1..Len(first.parts) : first.parts[i] = sent[n + 3].parts[1]
              /\ sent[n + 4].role = "model"
              /\ Len(sent[n + 4].parts) = 1
              /\ sent[n + 4].parts[1].kind = "functionResponse"
              /\ sent[n + 4].parts[1].name = sent[n + 3].parts[1].name
              /\ rec.request.functionResponse.instruction = InstructionText
              /\ rec.request.functionResponse.records = rec.searchResult.records
              /\ rec.request.functionResponse.totalCount = rec.searchResult.totalCount
              /\ rec.request.functionResponse.processingTimeMs
                 = rec.searchResult.processingTimeMs
              /\ Len(rec.searchResult.records) = 3
                 => rec.request.functionResponse.totalCount = 3

\* C21 witness: the follow-up call of a turn made after the welcome turn is
\* outstanding, and its function response has totalCount 3.
C21_Witness ==
    \E t \in Turns :
        /\ turns[t].pc = "follow_up"
        /\ turns[t].history # <<>>
        /\ Len(turns[t].request.contents) = Len(turns[t].history) + 4
        /\ turns[t].request.functionResponse.totalCount = 3
        /\ Len(turns[t].request.functionResponse.records) = 3

\* a text that tells the user to go to the admin panel
Actionable(txt) == HasToken(txt, "Admin panel")

\* the step settles the initializeChatSession call i of the given origin
InitSettles(i, src) ==
    /\ i \in 1..Len(pendingInits)
    /\ pendingInits[i].src = src
    /\ pendingInits' = Remove(pendingInits, i)

\* C22: a missing system prompt is surfaced as an instruction to configure
\* the admin panel on both paths: when session initialization fails the
\* toast carries it, and when handleSendMessage finds neither a session
\* context nor a saved prompt the turn it appends carries it.
C22_ConfigurationErrorIsActionable ==
    [][/\ (\E i \in 1..Len(pendingInits) : InitSettles(i, "effect") /\ ~sessionActive')
          => Actionable(toast')
       /\ \A t \in Turns :
             (turns[t].pc = "load_prompt" /\ turns'[t].pc = "done"
              /\ turns'[t].modelCalls = 0)
             => /\ Len(turns'[t].appended) = 1
                /\ Actionable(turns'[t].appended[1].parts[1].text)]_vars

\* C23: once a send is accepted the user turn is in the history before the
\* result of any network call has returned: no accepted invocation waits for
\* a network call with its user turn still to be appended.
C23_UserTurnAppendedFirst ==
    \A t \in Turns : InFlight(turns[t]) => turns[t].userAppended

\* C24: when the initializeChatSession call of handleResetChat resolves with
\* no turn in flight and no other initialization outstanding, the history is
\* exactly the welcome turn of the fresh session and the session is active.
C24_ResetRestoresWelcomeState ==
    [][(/\ \E i \in 1..Len(pendingInits) : InitSettles(i, "reset")
        /\ pendingInits' = <<>>
        /\ toast' = SessionRefreshedToast
        /\ \A t \in Turns : ~InFlight(turns[t]))
       => /\ chatSession' # NoSession
          /\ \E o \in InitOutcomes :
                messages' = <<WelcomeMessage(chatSession'.workspace, o.docs)>>
          /\ sessionActive']_vars

\* the events an invocation has written, in order
EventSequence(rec) == [i \in 1..Len(rec.logCalls) |-> rec.logCalls[i].event]

\* the invocation has run to its end and appended an answer turn
Answered(rec) ==
    /\ rec.pc = "done"
    /\ Len(rec.appended) = 1
    /\ rec.appended[1] # ErrorMessage

\* C25: in a conversation with a telemetry session, a turn that answered
\* after a tool round-trip has emitted user_message, function_call_triggered,
\* function_call_success and ai_response, in this order and once each, the
\* last three with the same correlation id; a turn that answered on the
\* plain path has emitted user_message and ai_response; and the ai_response
\* event is emitted before the model turn is appended.
C25_TelemetryEventOrder ==
    \A t \in Turns :
        /\ (Answered(turns[t]) /\ continuousImprovementSessionId # 0
            /\ turns[t].searchCalls = 1)
           => /\ EventSequence(turns[t])
                 = <<"user_message", "function_call_triggered",
                     "function_call_success", "ai_response">>
              /\ turns[t].logCalls[2].aiRequestId # 0
              /\ turns[t].logCalls[3].aiRequestId = turns[t].logCalls[2].aiRequestId
              /\ turns[t].logCalls[4].aiRequestId = turns[t].logCalls[2].aiRequestId
        /\ (Answered(turns[t]) /\ continuousImprovementSessionId # 0
            /\ turns[t].searchCalls = 0)
           => EventSequence(turns[t]) = <<"user_message", "ai_response">>
        /\ turns[t].pc \in {"log_response", "log_follow_up_response"}
           => turns[t].appended = <<>>

InitFailureToasts ==
    {InitFailureToast(ws, o.error) : ws \in Workspaces, o \in InitOutcomes}

\* C27: the effect clears history, session context and the active flag
\* before it awaits initializeChatSession; when the call resolves the
\* history is exactly the welcome turn, chatSession is set and sessionActive
\* is true; when it rejects the history is empty, chatSession is null and
\* sessionActive is false; in both cases sessionInitializing ends false.
C27_SessionInitializationOutcome ==
    [][/\ currentWorkspace' # currentWorkspace
          => (messages' = <<>> /\ chatSession' = NoSession /\ ~sessionActive')
       /\ \A i \in 1..Len(pendingInits) :
             InitSettles(i, "effect")
             => /\ ~sessionInitializing'
                /\ IF toast' \in InitFailureToasts
                   THEN /\ messages' = <<>>
                        /\ chatSession' = NoSession
                        /\ ~sessionActive'
                   ELSE /\ \E o \in InitOutcomes :
                             messages'
                             = <<WelcomeMessage(pendingInits[i].workspace, o.docs)>>
                        /\ chatSession' # NoSession
                        /\ chatSession'.workspace = pendingInits[i].workspace
                        /\ sessionActive']_vars

\* a welcome turn of initializeSession
IsWelcome(m) ==
    \E ws \in Workspaces, o \in InitOutcomes : m = WelcomeMessage(ws, o.docs)

\* C28: the history is empty, or an optional leading welcome turn followed
\* by strictly alternating user and model turns, with at most one trailing
\* unanswered user turn.
C28_HistoryShape ==
    LET lead == IF messages # <<>> /\ IsWelcome(messages[1]) THEN 1 ELSE 0
    IN  \A i \in 1..Len(messages) :
            i > lead
            => messages[i].role = (IF (i - lead) % 2 = 1 THEN "user" ELSE "model")

\* C29: every handleStructuredExtraction(type) call made with an active
\* session starts a turn whose user turn, and whose text passed to the
\* model, are prompts[type], whatever the input field held before the click.
C29_ExtractionSendsPrompt ==
    \A c \in 1..Len(management.calls) :
        management.calls[c].extraction # "none"
        => /\ management.calls[c].userTurn = prompts[management.calls[c].extraction]
           /\ management.calls[c].sentText = prompts[management.calls[c].extraction]

\* the texts that an ai_response event of a turn may record: the first 500
\* characters of the text of a response of the model (or of the placeholder
\* the handler uses for a response without text)
ModelResponseTexts ==
    { Substring(ResponseText(r.candidates[1].content), 0, 500) :
        r \in {x \in FirstModelResponses \cup FollowUpModelResponses :
                  x.settled = "resolved" /\ Len(x.candidates) > 0} }

AiResponseEvents(rec) ==
    {i \in 1..Len(rec.logCalls) : rec.logCalls[i].event = "ai_response"}

EndsInErrorTurn(rec) ==
    /\ rec.appended # <<>>
    /\ rec.appended[Len(rec.appended)] = ErrorMessage

\* C30: every ai_response event records the first 500 characters at most of
\* a model response, a turn emits at most one of them and none when it ends
\* in an error turn, and no submitFeedback invocation emits one.
C30_AiResponseEventsAreModelResponses ==
    /\ \A t \in Turns :
          /\ Cardinality(AiResponseEvents(turns[t])) <= 1
          /\ \A i \in AiResponseEvents(turns[t]) :
                /\ Len(turns[t].logCalls[i].aiResponse) <= 500
                /\ turns[t].logCalls[i].aiResponse \in ModelResponseTexts
          /\ EndsInErrorTurn(turns[t]) => AiResponseEvents(turns[t]) = {}
    /\ \A f \in 1..Len(feedbackCalls) : AiResponseEvents(feedbackCalls[f]) = {}

====
